---------------------------- MODULE Spec2Model ----------------------------
(***************************************************************************)
(* Full-page screenshot capture of the IE driver:                          *)
(*   src/cpp/iedriver/CommandHandlers/ScreenshotCommandHandler.h           *)
(*   src/cpp/iedriver/ScreenshotUtilities.cpp                              *)
(*                                                                         *)
(* The handler (ExecuteInternal, CaptureBrowser, CaptureView) and the      *)
(* utilities (GetWindowSize, SetWindowSize, IsImageSameColour,             *)
(* ConvImageToPngBase64string) are modelled step by step.  The native      *)
(* window, the document and the OS calls are the environment: every call   *)
(* whose result the code tests is a nondeterministic choice over the       *)
(* results the call can give.                                              *)
(***************************************************************************)
EXTENDS Integers, Sequences, FiniteSets, TLC

----------------------------------------------------------------------------
(* Program constants *)

\* int SIZE_LIMIT = 65534;
SIZE_LIMIT == 65534

\* int tries = 2;            (ExecuteInternal)
tries == 2

\* Mutant of PaintTries: one more turn of the paint loop
PaintTries_Four == 3 + 1

\* for (int i = 1; i <= 3; i++)   (CaptureView)
PaintTries == 3

\* for (int i = 0; i < 2; i++)    (CaptureBrowser, client size re-sampling)
ResampleTries_Three == 2 + 1

\* for (int i = 0; i < 2; i++): the reads of the final client size
ResampleTries == 2

\* clientWidth - 17, clientHeight - 17
CheckMargin == 17

\* targetViewHeight -= 2;
ScrollbarForce == 2

\* image->Create(width, height, 32, 0): bits per pixel
CreateBPP == 32

\* if (image->GetBPP() != 32) throw ...
CheckedBPP == 32

(* Bound of the model: requests served one after the other by the handler *)
MaxRequests == 1

Max(a, b) == IF a > b THEN a ELSE b
Min(a, b) == IF a < b THEN a ELSE b

----------------------------------------------------------------------------
(* The environment: the top-level window, its content view, the document.  *)
(*                                                                         *)
(* A scenario fixes what does not change during a request: the window      *)
(* chrome (outer size minus view size), the size of the maximized window,  *)
(* the largest outer size SetWindowPos applies (maxW, maxH), the scrollbar *)
(* thickness, the extent of the document's content and how the canvas      *)
(* shows scrollbars on each axis ("auto", "scroll": always, "hidden":      *)
(* never); collapsed: the canvas reports a client height (or width and     *)
(* height) of 0.                                                           *)

Base ==
  [ width |-> 1000, height |-> 700, maximized |-> FALSE,
    normalW |-> 1000, normalH |-> 700,
    screenW |-> 1000, screenH |-> 700,
    chromeW |-> 16, chromeH |-> 37, sb |-> 17,
    maxW |-> 100000, maxH |-> 100000,
    contentW |-> 900, contentH |-> 600,
    ovX |-> "auto", ovY |-> "auto", collapsed |-> "none" ]

Scenarios ==
  { \* everything fits: nothing to grow
    Base,
    \* outer 1000x700, view 984x663, client 984x646, scroll 984x900
    [Base EXCEPT !.contentW = 984, !.contentH = 900,
                 !.ovX = "scroll", !.ovY = "hidden"],
    \* a long page: vertical scrollbar, height grows
    [Base EXCEPT !.contentH = 2000],
    \* content wider than the client area but not wider than the view
    [Base EXCEPT !.contentW = 980, !.contentH = 500, !.ovY = "scroll"],
    \* wide and long page: both axes grow
    [Base EXCEPT !.contentW = 1500, !.contentH = 2000],
    \* a page above the GDI+ limit on both axes
    [Base EXCEPT !.contentW = 70000, !.contentH = 70000],
    \* a page above the limit, window manager caps the outer size
    [Base EXCEPT !.contentH = 70000, !.maxW = 4000, !.maxH = 4000],
    \* content one pixel higher than the view, vertical scrollbar always on
    [Base EXCEPT !.contentH = 664, !.ovY = "scroll"],
    \* maximized window, long page
    [Base EXCEPT !.maximized = TRUE, !.normalW = 800, !.normalH = 600,
                 !.contentH = 2000],
    \* maximized window, wide and long page: both axes grow
    [Base EXCEPT !.maximized = TRUE, !.normalW = 800, !.normalH = 600,
                 !.contentW = 1500, !.contentH = 2000],
    \* maximized window, everything fits
    [Base EXCEPT !.maximized = TRUE, !.normalW = 800, !.normalH = 600],
    \* canvas without height
    [Base EXCEPT !.contentW = 0, !.contentH = 0, !.collapsed = "height"],
    \* canvas without client area, content wider than nothing
    [Base EXCEPT !.contentW = 100, !.contentH = 0, !.collapsed = "both"],
    \* a very small window, view 14x13: the client area is below the check
    \* margin
    [Base EXCEPT !.width = 30, !.height = 50, !.normalW = 30, !.normalH = 50,
                 !.contentW = 10, !.contentH = 10]
  }

\* GetWindowSize(content_window_handle, ...): the view is the window minus
\* its chrome.
ViewW(s, w) == Max(0, w.width - s.chromeW)
ViewH(s, w) == Max(0, w.height - s.chromeH)

\* The canvas metrics (get_clientWidth, get_scrollWidth, get_clientHeight,
\* get_scrollHeight) of a document laid out in a view of vw x vh.
Layout(s, vw, vh) ==
  LET hFirst == CASE s.ovX = "scroll" -> TRUE
                  [] s.ovX = "hidden" -> FALSE
                  [] OTHER -> s.contentW > vw
      v == CASE s.ovY = "scroll" -> TRUE
             [] s.ovY = "hidden" -> FALSE
             [] OTHER -> s.contentH > vh - (IF hFirst THEN s.sb ELSE 0)
      h == IF s.ovX = "auto"
             THEN s.contentW > vw - (IF v THEN s.sb ELSE 0)
             ELSE hFirst
      cw == IF s.collapsed = "both" THEN 0
            ELSE Max(0, vw - (IF v THEN s.sb ELSE 0))
      ch == IF s.collapsed \in {"both", "height"} THEN 0
            ELSE Max(0, vh - (IF h THEN s.sb ELSE 0))
  IN  [ clientWidth |-> cw, clientHeight |-> ch,
        scrollWidth |-> Max(s.contentW, cw),
        scrollHeight |-> Max(s.contentH, ch) ]

----------------------------------------------------------------------------
VARIABLES
  scn,        \* the scenario (never changes)
  win,        \* top-level window: [width, height, maximized]
  dom,        \* the canvas metrics the document currently reports
  pc,         \* position of the handler
  requests,   \* requests started so far
  before,     \* the window immediately before the current request began
  i,          \* ExecuteInternal: loop index of the outer capture loop
  hr,         \* ExecuteInternal: result of the last CaptureBrowser call
  image_,     \* this->image_: <<>> is NULL, <<img>> points to img
  heap,       \* CImage objects allocated with new and not yet deleted
  response,   \* the Response: <<>> until set, then <<[kind, value]>>
  responses,  \* number of Set...Response calls of the current request
  cb,         \* CaptureBrowser: its locals
  cv,         \* CaptureView: its parameters and locals
  ops,        \* window/document/paint operations of the current attempt
  attempts,   \* CaptureBrowser calls of the current request
  prints      \* PrintWindow calls of the current CaptureView call

vars == << scn, win, dom, pc, requests, before, i, hr, image_, heap, response,
           responses, cb, cv, ops, attempts, prints >>

cbInit ==
  [ windowWidth |-> 0, windowHeight |-> 0, viewWidth |-> 0, viewHeight |-> 0,
    is_maximized |-> FALSE,
    is_resized_width |-> FALSE, is_resized_height |-> FALSE,
    targetWindowWidth |-> 0, targetWindowHeight |-> 0,
    clientWidth |-> 0, scrollWidth |-> 0, scrollbarWidth |-> 0,
    targetViewWidth |-> 0,
    clientHeight |-> 0, scrollHeight |-> 0, scrollbarHeight |-> 0,
    targetViewHeight |-> 0,
    targetClientWidth |-> 0, targetClientHeight |-> 0,
    i |-> 0 ]

cvInit ==
  [ width |-> 0, height |-> 0, check_width |-> 0, check_height |-> 0,
    i |-> 0, image |-> <<>>, checked |-> <<>> ]

Op(name, w, h, ok) == [op |-> name, w |-> w, h |-> h, ok |-> ok]

Init ==
  /\ scn \in Scenarios
  /\ win = [width |-> scn.width, height |-> scn.height,
            maximized |-> scn.maximized]
  /\ dom = Layout(scn, ViewW(scn, win), ViewH(scn, win))
  /\ pc = "idle"
  /\ requests = 0
  /\ before = win
  /\ i = 0
  /\ hr = "S_OK"
  /\ image_ = <<>>
  /\ heap = 0
  /\ response = <<>>
  /\ responses = 0
  /\ cb = cbInit
  /\ cv = cvInit
  /\ ops = <<>>
  /\ attempts = 0
  /\ prints = 0


----------------------------------------------------------------------------
(* The native calls *)

\* Mutant of SetWindowSize: the size is not read back after SetWindowPos
SetWindowSize_NoVerify(s, w, width, height) ==
  LET applied == IF w.maximized THEN w
                 ELSE [w EXCEPT !.width = IF width < s.maxW THEN width ELSE s.maxW,
                                !.height = IF height < s.maxH THEN height ELSE s.maxH]
  IN  { [win |-> w, succeed |-> FALSE], [win |-> applied, succeed |-> TRUE] }

\* ::SetWindowPos(hwnd, NULL, 0, 0, width, height, uFlags) followed by
\* GetWindowSize: the call fails and leaves the window alone, or it is
\* applied, capped to the largest size the window manager gives; a maximized
\* window ignores it.  succeed is SetWindowSize's return value.
SetWindowSize(s, w, width, height) ==
  LET applied == IF w.maximized THEN w
                 ELSE [w EXCEPT !.width = Min(width, s.maxW),
                                !.height = Min(height, s.maxH)]
  IN  { [win |-> w, succeed |-> FALSE],
        [win |-> applied,
         succeed |-> (applied.width = width /\ applied.height = height)] }

\* ::ShowWindow(ie_window_handle, SW_SHOWNOACTIVATE): a maximized window goes
\* back to its normal placement.
Demaximize(s, w) ==
  IF w.maximized
    THEN [width |-> s.normalW, height |-> s.normalH, maximized |-> FALSE]
    ELSE w

\* ::ShowWindow(ie_window_handle, SW_MAXIMIZE)
Maximize(s, w) ==
  [width |-> s.screenW, height |-> s.screenH, maximized |-> TRUE]

\* The document reflows after the window changed, at once or later: what it
\* reports is the metrics it had or those of the current view.
DomAfter(s, d, w) == {d, Layout(s, ViewW(s, w), ViewH(s, w))}

----------------------------------------------------------------------------
(* CaptureBrowser's arithmetic *)

\* int scrollbarWidth = max(0, viewWidth - clientWidth);  (and height)
ScrollbarSize(view, client) == Max(0, view - client)

\* int targetViewWidth = max(viewWidth, scrollWidth + scrollbarWidth);
NaturalViewSize(view, scroll, scrollbar) == Max(view, scroll + scrollbar)

\* Mutant of Grows: an axis that already fits is resized too
Grows_OrEqual(target, view) == target >= view

\* if (targetViewWidth > viewWidth)   (and height): the axis has to grow
Grows(target, view) == target > view

\* Mutant of Truncate: the limit is not applied
Truncate_None(target) == target

\* if (targetViewWidth > SIZE_LIMIT) targetViewWidth = SIZE_LIMIT;
Truncate(target) == IF target > SIZE_LIMIT THEN SIZE_LIMIT ELSE target

\* Mutant of ForceScrollbar: 2 pixels are removed whatever the scrollbar
ForceScrollbar_Always(targetViewHeight, scrollbarWidth) ==
  targetViewHeight - 2

\* Mutant of ForceScrollbar: nothing is ever removed
ForceScrollbar_Never(targetViewHeight, scrollbarWidth) ==
  targetViewHeight

\* if (scrollbarWidth > 0) targetViewHeight -= 2;
ForceScrollbar(targetViewHeight, scrollbarWidth) ==
  IF scrollbarWidth > 0 THEN targetViewHeight - ScrollbarForce
  ELSE targetViewHeight

\* Mutant of RestoreNeeded: the height resize is forgotten
RestoreNeeded_WidthOnly(is_resized_width, is_resized_height) ==
  is_resized_width

\* if (is_resized_width || is_resized_height)   (restore the browser)
RestoreNeeded(is_resized_width, is_resized_height) ==
  is_resized_width \/ is_resized_height

\* Mutant of CaptureTarget: the view size is taken only when both are null
CaptureTarget_Both(targetClientWidth, targetClientHeight, targetViewWidth, targetViewHeight) ==
  IF targetClientWidth < 1 /\ targetClientHeight < 1
    THEN <<targetViewWidth, targetViewHeight>>
    ELSE <<targetClientWidth, targetClientHeight>>

\* if (targetClientWidth < 1 || targetClientHeight < 1) take the view size
CaptureTarget(targetClientWidth, targetClientHeight, targetViewWidth, targetViewHeight) ==
  IF targetClientWidth < 1 \/ targetClientHeight < 1
    THEN <<targetViewWidth, targetViewHeight>>
    ELSE <<targetClientWidth, targetClientHeight>>

\* Mutant of CheckSize: the check size is taken from the bitmap size
CheckSize_Target(clientWidth, clientHeight, width, height) ==
  <<width - 17, height - 17>>

\* clientWidth - 17, clientHeight - 17: the check size handed to CaptureView
\* (width, height: the bitmap size, which the code does not use here)
CheckSize(clientWidth, clientHeight, width, height) ==
  <<clientWidth - CheckMargin, clientHeight - CheckMargin>>

----------------------------------------------------------------------------
(* Images.  An image is [width, height, bpp, px]: px is the set of the     *)
(* pixels <<x, y>> whose colour differs from the colour of pixel <<0, 0>>. *)

\* The rectangle IsImageSameColour scans: min(check_width, GetWidth()) by
\* min(check_height, GetHeight()).
CheckedRegion(image, check_width, check_height) ==
  <<Min(check_width, image.width), Min(check_height, image.height)>>

\* Mutant of IsImageSameColour: an empty scan does not report a uniform image
IsImageSameColour_EmptyDiffers(image, check_width, check_height) ==
  LET w == IF check_width < image.width THEN check_width ELSE image.width
      h == IF check_height < image.height THEN check_height ELSE image.height
  IN  /\ w > 0 /\ h > 0
      /\ \A p \in image.px : ~(p[1] < w /\ p[2] < h)

\* bool IsImageSameColour(CImage* image, int check_width, int check_height):
\* false as soon as a pixel <<x, y>>, y < height, x < width, differs from the
\* first pixel; true when the scan ends (at once when it is empty).
IsImageSameColour(image, check_width, check_height) ==
  LET r == CheckedRegion(image, check_width, check_height)
  IN  \A p \in image.px : ~(p[1] < r[1] /\ p[2] < r[2])

\* What PrintWindow can paint into a width x height buffer: a blank frame, a
\* frame differing next to the origin, a frame differing only on the row
\* 18 pixels above the bottom edge, a frame differing only in the
\* bottom-right corner.
Paintings(width, height) ==
  { {} }
  \cup (IF width >= 2 THEN { {<<1, 0>>} } ELSE {})
  \cup (IF height >= 19 THEN { {<<0, height - 18>>} } ELSE {})
  \cup (IF width >= 2 /\ height >= 2
          THEN { {<<width - 1, height - 1>>} } ELSE {})

\* The text ConvImageToPngBase64string produces for an image.
Base64Png(image) == <<"PNG", image.width, image.height>>

----------------------------------------------------------------------------
(* ExecuteInternal *)

\* response->SetErrorResponse(status_code, "Unable to get browser");
NoBrowserResponse == [kind |-> "error", value |-> <<"Unable to get browser">>]

\* Mutant of ExhaustedResponse: exhaustion reported as an error
ExhaustedResponse_Error == [kind |-> "error", value |-> <<"No screenshot">>]

\* response->SetSuccessResponse("");   (i >= tries)
ExhaustedResponse == [kind |-> "success", value |-> <<>>]

\* response->SetSuccessResponse("");   (FAILED(hr) of the conversion)
EncodeFailedResponse == [kind |-> "success", value |-> <<>>]

\* response->SetSuccessResponse(base64_screenshot);
EncodedResponse(base64_screenshot) ==
  [kind |-> "success", value |-> base64_screenshot]

\* Entry of ExecuteInternal: executor.GetCurrentBrowser(&browser_wrapper)
ExecuteInternal ==
  /\ pc \in {"idle", "done"}
  /\ requests < MaxRequests
  /\ requests' = requests + 1
  /\ before' = win
  /\ attempts' = 0
  /\ prints' = 0
  /\ ops' = <<>>
  /\ cb' = cbInit
  /\ cv' = cvInit
  /\ hr' = "S_OK"
  /\ \E status_code \in {"WD_SUCCESS", "ENOSUCHWINDOW"} :
       IF status_code # "WD_SUCCESS"
         THEN /\ response' = <<NoBrowserResponse>>
              /\ responses' = 1
              /\ i' = 0
              /\ pc' = "done"
         ELSE /\ response' = <<>>
              /\ responses' = 0
              /\ i' = 1
              /\ pc' = "CaptureBrowser"
  /\ UNCHANGED << scn, win, dom, image_, heap >>

\* void ClearImage(): the image_ slot and the heap after the call
ClearImage(img, h) ==
  IF img # <<>> THEN [image_ |-> <<>>, heap |-> h - 1]
  ELSE [image_ |-> img, heap |-> h]

\* The outer loop of ExecuteInternal after CaptureBrowser returned
EI_Loop ==
  /\ pc = "returned"
  /\ IF hr = "S_OK"
       THEN /\ pc' = "encode"
            /\ UNCHANGED << image_, heap, response, responses, i >>
       ELSE LET c == ClearImage(image_, heap)
            IN  /\ image_' = c.image_
                /\ heap' = c.heap
                /\ IF i >= tries
                     THEN /\ response' = <<ExhaustedResponse>>
                          /\ responses' = responses + 1
                          /\ pc' = "done"
                          /\ i' = i
                     ELSE /\ i' = i + 1
                          /\ pc' = "CaptureBrowser"
                          /\ UNCHANGED << response, responses >>
  /\ cb' = cbInit
  /\ cv' = cvInit
  /\ UNCHANGED << scn, win, dom, requests, before, hr, ops, attempts, prints >>

\* HRESULT ConvImageToPngBase64string(CImage* image, std::string& data):
\* E_POINTER without an image, else S_OK with the text or the failure of one
\* of its steps.
ConvImageToPngBase64string(img) ==
  IF img = <<>> THEN { [hr |-> "E_POINTER", data |-> <<>>] }
  ELSE { [hr |-> "S_OK", data |-> Base64Png(img[1])],
         [hr |-> "E_FAIL", data |-> <<>>] }

\* Mutant of SetResponses: no return after the response of a failed encoding
SetResponses_NoReturn(hr_) == IF hr_ # "S_OK" THEN 2 ELSE 1

\* The SetSuccessResponse calls after ConvImageToPngBase64string: the FAILED
\* branch responds and returns, else the last statement responds.
SetResponses(hr_) == IF hr_ # "S_OK" THEN 1 ELSE 1

\* ExecuteInternal after the loop: convert to a base64 string and respond
EI_Encode ==
  /\ pc = "encode"
  /\ \E r \in ConvImageToPngBase64string(image_) :
       LET c == ClearImage(image_, heap)
       IN  /\ image_' = c.image_
           /\ heap' = c.heap
           /\ response' = <<IF r.hr # "S_OK" THEN EncodeFailedResponse
                             ELSE EncodedResponse(r.data)>>
           /\ ops' = ops \o <<Op("encode", image_[1].width, image_[1].height,
                                  r.hr = "S_OK")>>
           /\ responses' = responses + SetResponses(r.hr)
  /\ pc' = "done"
  /\ UNCHANGED << scn, win, dom, requests, before, i, hr, cb, cv,
                  attempts, prints >>

----------------------------------------------------------------------------
(* CaptureBrowser *)

\* Entry of CaptureBrowser up to BOOL is_maximized = ::IsZoomed(...): the
\* window handles, the document, the canvas and the two GetWindowSize calls;
\* any of them failing returns E_FAIL before anything was changed.
CB_Enter ==
  /\ pc = "CaptureBrowser"
  /\ attempts' = attempts + 1
  /\ ops' = <<>>
  /\ prints' = 0
  /\ cv' = cvInit
  /\ \E reachable \in BOOLEAN :
       IF ~reachable
         THEN /\ hr' = "E_FAIL"
              /\ pc' = "returned"
              /\ cb' = cbInit
         ELSE /\ cb' = [cbInit EXCEPT
                          !.windowWidth = win.width,
                          !.windowHeight = win.height,
                          !.viewWidth = ViewW(scn, win),
                          !.viewHeight = ViewH(scn, win),
                          !.is_maximized = win.maximized,
                          !.targetWindowWidth = win.width,
                          !.targetWindowHeight = win.height]
              /\ pc' = "width"
              /\ hr' = hr
  /\ UNCHANGED << scn, win, dom, requests, before, i, image_, heap, response,
                  responses >>

\* Width: the metrics (clientWidth, scrollWidth, scrollbarWidth) and
\* "Increase the window width if necessary."
CB_Width ==
  /\ pc = "width"
  /\ \E d \in DomAfter(scn, dom, win) :
       LET clientWidth == d.clientWidth
           scrollWidth == d.scrollWidth
           scrollbarWidth == ScrollbarSize(cb.viewWidth, clientWidth)
           natural == NaturalViewSize(cb.viewWidth, scrollWidth, scrollbarWidth)
           got == [cb EXCEPT !.clientWidth = clientWidth,
                             !.scrollWidth = scrollWidth,
                             !.scrollbarWidth = scrollbarWidth]
           read == Op("get_width", clientWidth, scrollWidth, TRUE)
       IN  IF Grows(natural, cb.viewWidth)
             THEN LET targetViewWidth == Truncate(natural)
                      shown == IF cb.is_maximized
                                 THEN Demaximize(scn, win) ELSE win
                      demax == IF cb.is_maximized
                                 THEN <<Op("demaximize", 0, 0, TRUE)>>
                                 ELSE <<>>
                      targetWindowWidth ==
                        cb.targetWindowWidth + (targetViewWidth - cb.viewWidth)
                  IN  \E r \in SetWindowSize(scn, shown, targetWindowWidth,
                                             cb.targetWindowHeight) :
                        /\ win' = r.win
                        /\ dom' \in DomAfter(scn, d, r.win)
                        /\ ops' = ops \o <<read>> \o demax \o
                                  <<Op("resize_width", targetWindowWidth,
                                       cb.targetWindowHeight, r.succeed)>>
                        /\ cb' = [got EXCEPT
                                    !.targetViewWidth = targetViewWidth,
                                    !.targetWindowWidth = targetWindowWidth,
                                    !.is_resized_width = TRUE]
             ELSE /\ win' = win
                  /\ dom' = d
                  /\ ops' = ops \o <<read>>
                  /\ cb' = [got EXCEPT !.targetViewWidth = natural]
  /\ pc' = "height"
  /\ UNCHANGED << scn, requests, before, i, hr, image_, heap, response,
                  responses, cv, attempts, prints >>

\* Mutant of DemaximizeForHeight: the width resize is not taken into account
DemaximizeForHeight_Again(is_maximized, is_resized_width) == is_maximized

\* if (is_maximized && !is_resized_width) ::ShowWindow(..., SW_SHOWNORMAL)
DemaximizeForHeight(is_maximized, is_resized_width) == is_maximized /\ ~is_resized_width

\* Mutant of HeightResizeWidth: the height resize asks for the original width
HeightResizeWidth_Original(windowWidth, targetWindowWidth) == windowWidth

\* SetWindowSize(ie_window_handle, targetWindowWidth, targetWindowHeight)
HeightResizeWidth(windowWidth, targetWindowWidth) == targetWindowWidth

\* Height: the metrics (clientHeight, scrollHeight, scrollbarHeight),
\* "Increase the window height if necessary." and the initial value of the
\* final client size.
CB_Height ==
  /\ pc = "height"
  /\ \E d \in DomAfter(scn, dom, win) :
       LET clientHeight == d.clientHeight
           scrollHeight == d.scrollHeight
           scrollbarHeight == ScrollbarSize(cb.viewHeight, clientHeight)
           natural == NaturalViewSize(cb.viewHeight, scrollHeight,
                                      scrollbarHeight)
           got == [cb EXCEPT !.clientHeight = clientHeight,
                             !.scrollHeight = scrollHeight,
                             !.scrollbarHeight = scrollbarHeight,
                             !.targetClientWidth = cb.clientWidth,
                             !.targetClientHeight = clientHeight]
           read == Op("get_height", clientHeight, scrollHeight, TRUE)
       IN  IF Grows(natural, cb.viewHeight)
             THEN LET targetViewHeight ==
                        ForceScrollbar(Truncate(natural), cb.scrollbarWidth)
                      first == DemaximizeForHeight(cb.is_maximized,
                                                   cb.is_resized_width)
                      width == HeightResizeWidth(cb.windowWidth,
                                                 cb.targetWindowWidth)
                      shown == IF first THEN Demaximize(scn, win) ELSE win
                      demax == IF first
                                 THEN <<Op("demaximize", 0, 0, TRUE)>>
                                 ELSE <<>>
                      targetWindowHeight ==
                        cb.targetWindowHeight + (targetViewHeight - cb.viewHeight)
                  IN  \E r \in SetWindowSize(scn, shown, width,
                                             targetWindowHeight) :
                        /\ win' = r.win
                        /\ dom' \in DomAfter(scn, d, r.win)
                        /\ ops' = ops \o <<read>> \o demax \o
                                  <<Op("resize_height", width,
                                       targetWindowHeight, r.succeed)>>
                        /\ cb' = [got EXCEPT
                                    !.targetViewHeight = targetViewHeight,
                                    !.targetWindowHeight = targetWindowHeight,
                                    !.is_resized_height = TRUE]
                        /\ pc' = "resample"
             ELSE /\ win' = win
                  /\ dom' = d
                  /\ ops' = ops \o <<read>>
                  /\ cb' = [got EXCEPT !.targetViewHeight = natural]
                  /\ pc' = IF cb.is_resized_width THEN "resample" ELSE "capture"
  /\ UNCHANGED << scn, requests, before, i, hr, image_, heap, response,
                  responses, cv, attempts, prints >>

\* One turn of the loop "for (int i = 0; i < 2; i++)" that reads the final
\* client size: the two reads, the check, and document3->recalc(fForce).
CB_Resample ==
  /\ pc = "resample"
  /\ cb.i < ResampleTries
  /\ \E d \in DomAfter(scn, dom, win) :
       LET targetClientWidth == d.clientWidth
           targetClientHeight == d.clientHeight
           calcWidthOK == ~cb.is_resized_width
                            \/ targetClientWidth # cb.clientWidth
           calcHeightOK == ~cb.is_resized_height
                            \/ targetClientHeight # cb.clientHeight
           got == [cb EXCEPT !.targetClientWidth = targetClientWidth,
                             !.targetClientHeight = targetClientHeight]
           read == Op("get_client", targetClientWidth, targetClientHeight,
                      calcWidthOK /\ calcHeightOK)
       IN  IF calcWidthOK /\ calcHeightOK
             THEN /\ cb' = got
                  /\ dom' = d
                  /\ ops' = ops \o <<read>>
                  /\ pc' = "capture"
             ELSE LET fForce == cb.i > 0
                  IN  /\ cb' = [got EXCEPT !.i = cb.i + 1]
                      /\ dom' \in DomAfter(scn, d, win)
                      /\ ops' = ops \o <<read, Op("recalc", 0, 0, fForce)>>
                      /\ pc' = IF cb.i + 1 < ResampleTries
                                 THEN "resample" ELSE "capture"
  /\ UNCHANGED << scn, win, requests, before, i, hr, image_, heap, response,
                  responses, cv, attempts, prints >>

----------------------------------------------------------------------------
(* CaptureView *)

\* "Ensure that the client area has at least 1 pixel", the call of
\* CaptureView and its "new CImage()" and image->Create(width, height, 32, 0):
\* without a bitmap CaptureView returns NULL, which CaptureBrowser stores in
\* image_.
CV_Create ==
  /\ pc = "capture"
  /\ LET target == CaptureTarget(cb.targetClientWidth, cb.targetClientHeight,
                                 cb.targetViewWidth, cb.targetViewHeight)
         check == CheckSize(cb.clientWidth, cb.clientHeight,
                            target[1], target[2])
         called == [cvInit EXCEPT !.width = target[1], !.height = target[2],
                                  !.check_width = check[1],
                                  !.check_height = check[2]]
     IN  /\ cb' = [cb EXCEPT !.targetClientWidth = target[1],
                             !.targetClientHeight = target[2]]
         /\ heap' = heap + 1
         /\ \E created \in {c \in BOOLEAN :
                              c => (target[1] >= 1 /\ target[2] >= 1)} :
              IF created
                THEN /\ cv' = [called EXCEPT
                                 !.i = 1,
                                 !.image = <<[width |-> target[1],
                                              height |-> target[2],
                                              bpp |-> CreateBPP,
                                              px |-> {}]>>]
                     /\ ops' = ops \o <<Op("create", target[1], target[2], TRUE)>>
                     /\ image_' = image_
                     /\ pc' = "paint"
                ELSE /\ cv' = called
                     /\ ops' = ops \o <<Op("create", target[1], target[2], FALSE)>>
                     /\ image_' = <<>>
                     /\ pc' = "restore"
  /\ prints' = 0
  /\ UNCHANGED << scn, win, dom, requests, before, i, hr, response, responses,
                  attempts >>

\* Mutant of CaptureViewResult: no image when no paint was accepted
CaptureViewResult_NullOnExhaust(image, accepted) ==
  IF accepted THEN <<image>> ELSE <<>>

\* "Release the device context and return the image.": the image is returned
\* whether or not a paint was accepted.
CaptureViewResult(image, accepted) == <<image>>

\* One turn of the loop "for (int i = 1; i <= 3; i++)" of CaptureView:
\* PrintWindow, IsImageSameColour, UpdateWindow; leaving the loop returns the
\* image, which CaptureBrowser stores in image_.  IsImageSameColour throws
\* on an image that is not 32 bits per pixel: nothing catches it ("fault").
CV_Paint ==
  /\ pc = "paint"
  /\ cv.i <= PaintTries
  /\ prints' = prints + 1
  /\ \E is_print_success \in BOOLEAN :
       \E px \in IF is_print_success
                   THEN Paintings(cv.width, cv.height)
                   ELSE {cv.image[1].px} :
         LET image == [cv.image[1] EXCEPT !.px = px]
             region == CheckedRegion(image, cv.check_width, cv.check_height)
             is_same_color ==
               IsImageSameColour(image, cv.check_width, cv.check_height)
             accepted == is_print_success /\ ~is_same_color
             leave == accepted \/ cv.i + 1 > PaintTries
             thrown == is_print_success /\ image.bpp # CheckedBPP
         IN  /\ cv' = [cv EXCEPT
                         !.image = <<image>>,
                         !.i = IF accepted THEN cv.i ELSE cv.i + 1,
                         !.checked = IF is_print_success
                                       THEN <<region>> ELSE <<>>]
             /\ ops' = ops \o
                  <<Op("print", cv.i, 0, is_print_success)>> \o
                  (IF is_print_success
                     THEN <<Op("check", region[1], region[2], is_same_color)>>
                     ELSE <<>>) \o
                  (IF accepted THEN <<>>
                   ELSE <<Op("update", 0, 0, TRUE)>>)
             /\ IF thrown
                  THEN /\ image_' = image_
                       /\ pc' = "fault"
                  ELSE IF leave
                  THEN /\ image_' = CaptureViewResult(image, accepted)
                       /\ pc' = "restore"
                  ELSE /\ image_' = image_
                       /\ pc' = "paint"
  /\ UNCHANGED << scn, win, dom, requests, before, i, hr, heap, response,
                  responses, cb, attempts >>

----------------------------------------------------------------------------
(* CaptureBrowser, after CaptureView *)

\* Mutant of RestoreByMaximize: the original size is always set
RestoreByMaximize_Never(is_maximized) == FALSE

\* if (is_maximized) ::ShowWindow(..., SW_MAXIMIZE) else SetWindowSize(...)
RestoreByMaximize(is_maximized) == is_maximized

\* "Restore the browser to the original dimensions." and the return value
CB_Restore ==
  /\ pc = "restore"
  /\ IF RestoreNeeded(cb.is_resized_width, cb.is_resized_height)
       THEN IF RestoreByMaximize(cb.is_maximized)
              THEN /\ win' = Maximize(scn, win)
                   /\ ops' = ops \o <<Op("maximize", 0, 0, TRUE)>>
              ELSE \E r \in SetWindowSize(scn, win, cb.windowWidth,
                                          cb.windowHeight) :
                     /\ win' = r.win
                     /\ ops' = ops \o <<Op("restore_size", cb.windowWidth,
                                           cb.windowHeight, r.succeed)>>
       ELSE /\ win' = win
            /\ ops' = ops
  /\ dom' \in DomAfter(scn, dom, win')
  /\ hr' = IF image_ = <<>> THEN "E_FAIL" ELSE "S_OK"
  /\ pc' = "returned"
  /\ UNCHANGED << scn, requests, before, i, image_, heap, response, responses,
                  cb, cv, attempts, prints >>

----------------------------------------------------------------------------
Next ==
  \/ ExecuteInternal
  \/ CB_Enter
  \/ CB_Width
  \/ CB_Height
  \/ CB_Resample
  \/ CV_Create
  \/ CV_Paint
  \/ CB_Restore
  \/ EI_Loop
  \/ EI_Encode

Spec == Init /\ [][Next]_vars

----------------------------------------------------------------------------
(* Properties *)

\* The positions of the operations named in names in the current attempt
OpsAt(names) == {k \in DOMAIN ops : ops[k].op \in names}

\* The position of the last of them
LastAt(names) == LET at == OpsAt(names) IN CHOOSE k \in at : \A m \in at : m <= k

Resizes == OpsAt({"resize_width", "resize_height"})
Restores == OpsAt({"maximize", "restore_size"})

\* The browser of the current request was resolved
Resolved == i >= 1

\* The locals of CaptureBrowser hold the metrics of both axes
Measured == pc \in {"resample", "capture", "paint", "restore", "returned"}

\* C1 (as claimed): when a request whose browser was resolved has returned,
\* the top-level window has the outer size and the maximized flag it had
\* immediately before the request began.
C1_WindowAsBefore ==
  (pc = "done" /\ Resolved) =>
    /\ win.width = before.width
    /\ win.height = before.height
    /\ win.maximized = before.maximized

\* C2: once an attempt has returned (success, failure followed by a retry,
\* final failure), every resize request it issued is followed by a restore
\* request (re-maximize or set original size) of the same attempt.
C2_RestoreIssued ==
  (pc \in {"returned", "CaptureBrowser", "encode", "done"}) =>
    \A k \in Resizes : \E m \in Restores : m > k

\* C2 witness: a bitmap allocation failure after a resize, the outer retry
\* about to start, the restore request issued.
C2_Witness ==
  /\ pc = "CaptureBrowser"
  /\ i = 2
  /\ Resizes # {}
  /\ \E k \in OpsAt({"create"}) : ~ops[k].ok
  /\ Restores # {}

\* C3: a request whose browser was resolved ends with a success response,
\* never an error; it carries the encoded text when an attempt produced a
\* bitmap and the encoding succeeded, and the empty string when both outer
\* attempts failed or the encoding failed.
C3_AlwaysSuccess ==
  (pc = "done" /\ Resolved) =>
    /\ Len(response) = 1
    /\ response[1].kind = "success"
    /\ LET enc == OpsAt({"encode"})
       IN  IF enc # {} /\ \A k \in enc : ops[k].ok
             THEN /\ hr = "S_OK"
                  /\ response[1].value # <<>>
                  /\ \A k \in enc :
                       response[1].value = <<"PNG", ops[k].w, ops[k].h>>
             ELSE /\ response[1].value = <<>>
                  /\ (enc = {}) = (hr = "E_FAIL" /\ attempts = 2)

\* C3 witness: both outer attempts failed and the response is the empty
\* success.
C3_Witness ==
  /\ pc = "done"
  /\ Resolved
  /\ attempts = 2
  /\ hr = "E_FAIL"
  /\ response = <<[kind |-> "success", value |-> <<>>]>>

\* C4: one CaptureView call issues at most 3 PrintWindow requests, one
\* request at most 2 CaptureBrowser attempts; the handler never stops on an
\* unhandled fault, and a resolved request ends with the text of the last
\* bitmap or with an empty success.
C4_RetryBound ==
  /\ prints <= 3
  /\ Cardinality(OpsAt({"print"})) <= 3
  /\ attempts <= 2
  /\ pc # "fault"
  /\ (pc = "done" /\ Resolved) =>
       /\ response[1].kind = "success"
       /\ \/ response[1].value = <<>>
          \/ \E k \in OpsAt({"create"}) :
               /\ ops[k].ok
               /\ response[1].value = <<"PNG", ops[k].w, ops[k].h>>

\* C4 witness: the second attempt used all 3 paints and the request ended
\* with the text of the last bitmap.
C4_Witness ==
  /\ pc = "done"
  /\ attempts = 2
  /\ prints = 3
  /\ response[1].value # <<>>

\* C5 (as claimed): if the scroll width is at most the view width and the
\* scroll height at most the view height, the attempt issues no resize, no
\* demaximize, and subtracts nothing from the target view height.
C5_NoOpWhenScrollFitsView ==
  (Measured /\ cb.windowWidth > 0
     /\ cb.scrollWidth <= cb.viewWidth /\ cb.scrollHeight <= cb.viewHeight) =>
    /\ OpsAt({"resize_width", "resize_height", "demaximize"}) = {}
    /\ ~cb.is_resized_width /\ ~cb.is_resized_height
    /\ cb.targetViewHeight = cb.viewHeight

\* C5 (amended): if scroll width + scrollbar width is at most the view width
\* and scroll height + scrollbar height at most the view height, the attempt
\* issues no resize, no demaximize, and subtracts nothing from the target
\* view height.
C5_NoOpWhenNothingGrows ==
  (Measured /\ cb.windowWidth > 0
     /\ cb.scrollWidth + cb.scrollbarWidth <= cb.viewWidth
     /\ cb.scrollHeight + cb.scrollbarHeight <= cb.viewHeight) =>
    /\ OpsAt({"resize_width", "resize_height", "demaximize"}) = {}
    /\ ~cb.is_resized_width /\ ~cb.is_resized_height
    /\ cb.targetViewWidth = cb.viewWidth
    /\ cb.targetViewHeight = cb.viewHeight
    /\ cb.targetWindowWidth = cb.windowWidth
    /\ cb.targetWindowHeight = cb.windowHeight
    /\ (pc = "returned" => Restores = {})

\* C5 witness: a maximized window whose document fits was captured and left
\* alone.
C5_Witness ==
  /\ pc = "returned"
  /\ hr = "S_OK"
  /\ cb.is_maximized
  /\ cb.scrollWidth + cb.scrollbarWidth <= cb.viewWidth
  /\ cb.scrollHeight + cb.scrollbarHeight <= cb.viewHeight
  /\ win.maximized

\* The attempt measured the window and the document of the scenario: outer
\* 1000x700, view 984x663, client 984x646, scroll 984x900.
C6_Scenario ==
  /\ Measured
  /\ ~cb.is_maximized
  /\ cb.windowWidth = 1000 /\ cb.windowHeight = 700
  /\ cb.viewWidth = 984 /\ cb.viewHeight = 663
  /\ cb.clientWidth = 984 /\ cb.clientHeight = 646
  /\ cb.scrollWidth = 984 /\ cb.scrollHeight = 900

\* C6 (as claimed): in the scenario the scrollbar height is 17, the target
\* view height is 917 - 2 = 915, the window is resized in height only, and
\* after capture the window is restored to 1000x700.
C6_ScenarioAsClaimed ==
  C6_Scenario =>
    /\ cb.scrollbarHeight = 17
    /\ cb.targetViewHeight = 915
    /\ ~cb.is_resized_width /\ cb.is_resized_height
    /\ (pc = "returned" => (win.width = 1000 /\ win.height = 700))

\* C6 (amended): in the scenario the scrollbar height is 17 and the scrollbar
\* width 0, so nothing is subtracted and the target view height is
\* max(663, 900 + 17) = 917; the window is resized in height only, to
\* 1000x954; the last window operation of the attempt is a set-size request
\* for 1000x700.
C6_ScenarioAmended ==
  C6_Scenario =>
    /\ cb.scrollbarHeight = 17
    /\ cb.scrollbarWidth = 0
    /\ cb.targetViewHeight = 917
    /\ cb.targetViewWidth = 984
    /\ ~cb.is_resized_width /\ cb.is_resized_height
    /\ OpsAt({"resize_width", "demaximize"}) = {}
    /\ \E k \in DOMAIN ops :
         /\ OpsAt({"resize_height"}) = {k}
         /\ ops[k].w = 1000 /\ ops[k].h = 954
    /\ (pc = "returned" =>
          /\ ops[Len(ops)].op = "restore_size"
          /\ ops[Len(ops)].w = 1000 /\ ops[Len(ops)].h = 700
          /\ OpsAt({"restore_size"}) = {Len(ops)})

\* C6 witness: the scenario's attempt returned with a bitmap of the grown
\* client area and the window is back at 1000x700.
C6_Witness ==
  /\ C6_Scenario
  /\ pc = "returned"
  /\ hr = "S_OK"
  /\ cb.targetViewHeight = 917
  /\ cv.width = 984 /\ cv.height = 900
  /\ win = [width |-> 1000, height |-> 700, maximized |-> FALSE]

\* C7: every target content dimension (target view size, target client
\* size, the bitmap size handed to CaptureView) is at most 65534; a target
\* view size above the limit is cut to the limit (the height less the 2
\* pixels of the forced scrollbar, if any) and the attempt goes on to
\* CaptureView.
C7_Ceiling ==
  /\ cb.targetViewWidth <= 65534 /\ cb.targetViewHeight <= 65534
  /\ cb.targetClientWidth <= 65534 /\ cb.targetClientHeight <= 65534
  /\ cv.width <= 65534 /\ cv.height <= 65534
  /\ \A k \in OpsAt({"create"}) : ops[k].w <= 65534 /\ ops[k].h <= 65534
  /\ (Measured /\ cb.scrollWidth + cb.scrollbarWidth > 65534) =>
       cb.targetViewWidth = 65534
  /\ (Measured /\ cb.scrollHeight + cb.scrollbarHeight > 65534) =>
       cb.targetViewHeight \in {65534, 65534 - 2}
  /\ (pc = "returned" /\ cb.windowWidth > 0) => OpsAt({"create"}) # {}

\* C7 witness: both axes were above the limit, the view targets were cut
\* and the attempt captured a bitmap.
C7_Witness ==
  /\ pc = "returned"
  /\ hr = "S_OK"
  /\ cb.scrollWidth > 65534 /\ cb.scrollHeight > 65534
  /\ cb.targetViewWidth = 65534
  /\ cb.targetViewHeight = 65532
  /\ cv.width > 60000 /\ cv.height > 60000

\* The height max(view height, scroll height + scrollbar height) of the
\* attempt
C8_Natural ==
  IF cb.viewHeight > cb.scrollHeight + cb.scrollbarHeight
    THEN cb.viewHeight ELSE cb.scrollHeight + cb.scrollbarHeight

\* C8 (as claimed): when the height is grown with a vertical scrollbar
\* (scrollbar width > 0) the target view height is exactly the natural
\* height minus 2; without one nothing is subtracted.
C8_CompensationAsClaimed ==
  (Measured /\ cb.is_resized_height) =>
    IF cb.scrollbarWidth > 0
      THEN cb.targetViewHeight = C8_Natural - 2
      ELSE cb.targetViewHeight \in {C8_Natural, 65534}

\* C8 (amended): when the height is grown with a vertical scrollbar the
\* target view height is exactly min(natural height, 65534) minus 2; without
\* one nothing is subtracted from min(natural height, 65534).  The height
\* requested from the window is the original one plus the growth of the
\* view.
C8_Compensation ==
  (Measured /\ cb.is_resized_height) =>
    LET cut == IF C8_Natural > 65534 THEN 65534 ELSE C8_Natural
    IN  /\ cb.scrollbarWidth = (IF cb.viewWidth > cb.clientWidth
                                  THEN cb.viewWidth - cb.clientWidth ELSE 0)
        /\ cb.targetViewHeight = IF cb.scrollbarWidth > 0 THEN cut - 2 ELSE cut
        /\ \E k \in OpsAt({"resize_height"}) :
             ops[k].h = cb.windowHeight + cb.targetViewHeight - cb.viewHeight

\* C8 witness: a height grown with a vertical scrollbar, below the limit
C8_Witness ==
  /\ Measured
  /\ cb.is_resized_height
  /\ cb.scrollbarWidth = 17
  /\ cb.scrollHeight = 2000
  /\ cb.targetViewHeight = 1998

\* C9: CaptureView is called with the view size (target view width and
\* height) when the final client width or height is below 1, and with the
\* final client size otherwise.
C9_DegenerateClient ==
  [][ pc = "capture" =>
        LET degenerate == cb.targetClientWidth < 1 \/ cb.targetClientHeight < 1
        IN  /\ cv'.width = IF degenerate THEN cb.targetViewWidth
                           ELSE cb.targetClientWidth
            /\ cv'.height = IF degenerate THEN cb.targetViewHeight
                            ELSE cb.targetClientHeight
            /\ ops'[Len(ops')].op = "create"
            /\ ops'[Len(ops')].w = cv'.width
            /\ ops'[Len(ops')].h = cv'.height ]_vars

\* C9 witness: the canvas reported a client height of 0 and a client width
\* of 984, and the bitmap has the size of the view.
C9_Witness ==
  /\ pc = "paint"
  /\ cb.clientWidth = 984 /\ cb.clientHeight = 0
  /\ ~cb.is_resized_width /\ ~cb.is_resized_height
  /\ cv.width = cb.targetViewWidth /\ cv.height = cb.targetViewHeight
  /\ cv.image[1].width = 984 /\ cv.image[1].height = 663

Rejected == OpsAt({"update"})

C12_BitmapLifetime ==
  /\ heap <= 1
  /\ (pc = "CaptureBrowser") => (heap = 0 /\ image_ = <<>>)
  /\ (pc = "done") => (heap = 0 /\ image_ = <<>>)

\* C13: when an attempt resized the window, its restore is a re-maximize
\* and no set-size request if the window was maximized when the attempt
\* began, and otherwise one set-size request with exactly the outer width
\* and height read when the attempt began and no re-maximize.
C13_RestoreForm ==
  (pc = "returned" /\ Resizes # {}) =>
    /\ (attempts = 1) =>
         /\ cb.windowWidth = before.width
         /\ cb.windowHeight = before.height
         /\ cb.is_maximized = before.maximized
    /\ IF cb.is_maximized
         THEN /\ OpsAt({"restore_size"}) = {}
              /\ Cardinality(OpsAt({"maximize"})) = 1
              /\ ops[Len(ops)].op = "maximize"
              /\ win.maximized
         ELSE /\ OpsAt({"maximize"}) = {}
              /\ Cardinality(OpsAt({"restore_size"})) = 1
              /\ ops[Len(ops)].op = "restore_size"
              /\ ops[Len(ops)].w = cb.windowWidth
              /\ ops[Len(ops)].h = cb.windowHeight
              /\ ~win.maximized

\* C13 witness: a maximized window was grown, captured and maximized again.
C13_Witness ==
  /\ pc = "returned"
  /\ hr = "S_OK"
  /\ cb.is_maximized
  /\ cb.is_resized_height
  /\ ops[Len(ops)].op = "maximize"
  /\ win = [width |-> 1000, height |-> 700, maximized |-> TRUE]

\* C14: within one attempt the window is taken out of the maximized state
\* at most once, only if it was maximized when the attempt began, and only
\* immediately before the first resize request of the attempt; an attempt in
\* which neither axis grows never demaximizes.
C14_LazyDemaximize ==
  /\ Cardinality(OpsAt({"demaximize"})) <= 1
  /\ \A k \in OpsAt({"demaximize"}) :
       /\ k + 1 \in Resizes
       /\ \A m \in Resizes : m >= k + 1
       /\ pc \in {"height", "resample", "capture", "paint", "restore",
                  "returned"} => cb.is_maximized
  /\ (Resizes = {}) => (OpsAt({"demaximize"}) = {})
  /\ (pc \in {"height", "resample", "capture", "paint", "restore"}
        /\ cb.is_maximized) => (win.maximized = (Resizes = {}))
  /\ (pc \in {"height", "resample", "capture", "paint", "restore"}
        /\ Resizes # {} /\ cb.is_maximized) => OpsAt({"demaximize"}) # {}

\* C14 witness: a maximized window grown on both axes, demaximized before
\* the width resize and not again before the height resize.
C14_Witness ==
  /\ pc = "capture"
  /\ cb.is_maximized
  /\ cb.is_resized_width
  /\ cb.is_resized_height
  /\ Cardinality(OpsAt({"demaximize"})) = 1
  /\ ~win.maximized

\* The resize request that has just been issued, if the last operation of
\* the attempt is one.
JustResized ==
  /\ pc \in {"height", "resample"}
  /\ ops # <<>>
  /\ ops[Len(ops)].op \in {"resize_width", "resize_height"}

\* The resize requests of the attempt that SetWindowSize reported as failed.
FailedResizes == {k \in Resizes : ~ops[k].ok}

\* C15: a resize request whose applied size differs from the requested size
\* is reported as failed by SetWindowSize, and that failure is not fatal: the
\* axis is still marked as resized, the capture and the restore take place,
\* and the attempt fails only if no bitmap could be created.
C15_FailedResizeNotFatal ==
  /\ JustResized =>
       ((win.width # ops[Len(ops)].w \/ win.height # ops[Len(ops)].h)
          => ~ops[Len(ops)].ok)
  /\ (pc \in {"height", "resample", "capture", "paint", "restore", "returned"}) =>
       /\ (OpsAt({"resize_width"}) # {}) => cb.is_resized_width
       /\ (OpsAt({"resize_height"}) # {}) => cb.is_resized_height
  /\ (pc = "returned" /\ FailedResizes # {}) =>
       /\ \E k \in OpsAt({"create"}) : \A m \in Resizes : m < k
       /\ \E k \in Restores : k > LastAt({"create"})
       /\ (hr = "S_OK") = ops[LastAt({"create"})].ok
       /\ (hr = "S_OK") = (image_ # <<>>)

\* C15 witness: the window manager capped the height resize, the request was
\* reported as failed, and the attempt still captured and restored.
C15_Witness ==
  /\ pc = "returned"
  /\ hr = "S_OK"
  /\ \E k \in OpsAt({"resize_height"}) :
       /\ ~ops[k].ok
       /\ ops[k].h > 4000
       /\ \E m \in OpsAt({"create"}) : ops[m].h < 4000
  /\ cb.is_resized_height
  /\ Restores # {}

\* The states of an attempt in which both axes have been evaluated
Evaluated == pc \in {"resample", "capture", "paint", "restore", "returned"}

\* C16: the width is evaluated, and its resize issued, before the client
\* height and the scroll height are read; a height resize comes after the
\* width resize and asks for the target window width already reached by the
\* width step (the grown one if the width grew).
C16_WidthBeforeHeight ==
  LET widths == OpsAt({"get_width"})
      heights == OpsAt({"get_height"})
      grownW == OpsAt({"resize_width"})
      grownH == OpsAt({"resize_height"})
  IN
  /\ (ops # <<>>) => ops[1].op = "get_width"
  /\ \A g \in heights :
       /\ \A k \in widths \cup grownW : k < g
       /\ \A k \in grownH : g < k
       /\ widths # {}
  /\ \A r \in grownH :
       /\ \A k \in grownW : k < r /\ ops[r].w = ops[k].w
       /\ Evaluated =>
            /\ ops[r].w = cb.targetWindowWidth
            /\ (grownW = {}) => ops[r].w = cb.windowWidth
            /\ (grownW # {}) =>
                 ops[r].w = cb.windowWidth + (cb.targetViewWidth - cb.viewWidth)

\* C16 witness: both axes grew; the height resize asks for the grown width.
C16_Witness ==
  /\ pc = "capture"
  /\ \E k \in OpsAt({"resize_width"}) : \E r \in OpsAt({"resize_height"}) :
       /\ k < r
       /\ ops[r].w = ops[k].w
       /\ ops[r].w > cb.windowWidth
       /\ ops[r].h > cb.windowHeight

\* The reads of the final client size in the attempt, and the recalcs
Samples == OpsAt({"get_client"})
Recalcs == OpsAt({"recalc"})
LastSample == LastAt({"get_client"})

\* C17: after a resize, and only then, the client size is read again at most
\* 2 times; each read that finds a resized axis unchanged is followed by a
\* recalc, forced exactly on the second read; the client size the loop leaves
\* is the last read, it is the capture size when it is at least 1x1, and a
\* resized axis whose reads never differed keeps the value read before the
\* resize.
C17_Resample ==
  LET samples == Samples
      recalcs == Recalcs
      resizes == Resizes
      last == IF samples = {} THEN 0 ELSE LastSample
  IN
  /\ Cardinality(samples) <= 2
  /\ (resizes = {}) => (samples = {} /\ recalcs = {})
  /\ \A s \in samples :
       /\ \A k \in resizes : k < s
       /\ ~ops[s].ok => (s + 1 \in recalcs)
       /\ ops[s].ok => (s = last /\ s + 1 \notin recalcs)
  /\ \A r \in recalcs :
       /\ r - 1 \in samples
       /\ ops[r].ok = (Cardinality({s \in samples : s < r}) = 2)
  /\ (pc = "capture") =>
       IF resizes = {}
         THEN /\ cb.targetClientWidth = cb.clientWidth
              /\ cb.targetClientHeight = cb.clientHeight
         ELSE /\ samples # {}
              /\ cb.targetClientWidth = ops[last].w
              /\ cb.targetClientHeight = ops[last].h
              /\ (cb.is_resized_width
                    /\ \A s \in samples : ops[s].w = cb.clientWidth)
                   => cb.targetClientWidth = cb.clientWidth
              /\ (cb.is_resized_height
                    /\ \A s \in samples : ops[s].h = cb.clientHeight)
                   => cb.targetClientHeight = cb.clientHeight
              /\ (Cardinality(samples) < 2) => ops[last].ok
  /\ (pc \in {"paint", "restore"} /\ samples # {}
        /\ ops[last].w >= 1 /\ ops[last].h >= 1) =>
       /\ ops[LastAt({"create"})].w = ops[last].w
       /\ ops[LastAt({"create"})].h = ops[last].h

\* C17 witness: the height was resized, both reads returned the height read
\* before the resize, the second recalc was forced, and the capture takes
\* that height.
C17_Witness ==
  /\ pc = "paint"
  /\ cb.is_resized_height
  /\ Cardinality(Samples) = 2
  /\ \A s \in Samples : ops[s].h = cb.clientHeight /\ ~ops[s].ok
  /\ \E r \in Recalcs : ops[r].ok /\ r - 1 = LastSample
  /\ \E r \in Recalcs : ~ops[r].ok
  /\ ops[LastAt({"create"})].h = cb.clientHeight
  /\ cb.clientHeight >= 1

\* C18 (as claimed): no resize request of an attempt asks for a window
\* smaller than the one the attempt found: the target window width is at
\* least the outer width and the target window height at least the outer
\* height read when the attempt began.
C18_NeverSmaller ==
  (pc \in {"height", "resample", "capture", "paint", "restore", "returned"}) =>
    /\ cb.targetWindowWidth >= cb.windowWidth
    /\ cb.targetWindowHeight >= cb.windowHeight
    /\ \A k \in Resizes : /\ ops[k].w >= cb.windowWidth
                          /\ ops[k].h >= cb.windowHeight

\* The check region CaptureView was given is empty
EmptyCheck == cv.check_width <= 0 \/ cv.check_height <= 0

Place ==
  CASE pc = "CaptureBrowser" -> 0
    [] pc = "width" -> 10
    [] pc = "height" -> 20
    [] pc = "resample" -> 30 + cb.i
    [] pc = "capture" -> 40
    [] pc = "paint" -> 50 + cv.i
    [] pc = "restore" -> 60
    [] pc = "returned" -> 70
    [] pc = "encode" -> 80
    [] OTHER -> 90
Progress == 100 * i + Place

\* C20: every request terminates and sets its response exactly once: no
\* response before the request is done and one when it is done; a request
\* that is not done can always take a step, every step of a request moves it
\* forward in a control flow of bounded length, and once the response is set
\* nothing happens but the start of the next request.
C20_TerminatesOnce ==
  /\ [](/\ responses <= 1
        /\ (response # <<>>) = (pc = "done")
        /\ (pc = "done") => (responses = 1 /\ Len(response) = 1)
        /\ (pc \notin {"idle", "done"}) => (responses = 0 /\ requests >= 1)
        /\ (pc \notin {"idle", "done"}) => ENABLED Next
        /\ Progress <= 100 * tries + 90)
  /\ [][(requests' = requests) => (Progress' > Progress)]_vars
  /\ [][(response # <<>>) =>
          (requests' = requests + 1 /\ ops' = <<>> /\ win' = win
             /\ prints' = 0)]_vars
  /\ [][(response = <<>> /\ response' # <<>>) =>
          (responses' = 1 /\ pc' = "done")]_vars

\* C20 witness: a request that used both attempts, resized, painted nine
\* times or fewer, and ended with its single response.
C20_Witness ==
  /\ pc = "done"
  /\ responses = 1
  /\ attempts = 2
  /\ Resizes # {}
  /\ OpsAt({"print"}) # {}
  /\ OpsAt({"encode"}) # {}

=============================================================================
